---- MODULE Spec2Model ----
(***************************************************************************)
(* Model of src/rapid_dev/hash_path_generator.py: a script that draws a    *)
(* random leaf, builds a Merkle authentication path of fixed depth with    *)
(* generate_random_junction and prints leaf, path steps and root.          *)
(*                                                                         *)
(* The script is modelled statement by statement (pc names the source line *)
(* about to run).  bytearray/bytes objects live in `heap` and the program  *)
(* variables hold references to them, so that aliasing (next_child = leaf) *)
(* is visible.  Calls to random.getrandbits are recorded in `rng`.         *)
(*                                                                         *)
(* hashlib.sha256 is library code: its compression function is replaced by *)
(* Sha256Digest, a deterministic, order-sensitive mixing function with the *)
(* same 32-byte digest size.  128-bit integers exceed TLC's integers, so   *)
(* an int is represented by its canonical base-256 digits (least           *)
(* significant first, no high-order zero digit).                           *)
(***************************************************************************)
EXTENDS Integers, Sequences, FiniteSets, TLC

VARIABLES pc, rng, heap, digests, output,
          leaf, direction_selector, path_digest, next_child,
          stop, it, i, direction, pd, d,
          child, rand, parent, j_direction,
          fpc, fin, fpair, fints

(***************************************************************************)
(* pc                  the source line about to run ("done" after line 50) *)
(* rng                 the getrandbits calls made so far, <<bits, result>> *)
(* heap                the bytearray/bytes objects, by reference 1, 2, ... *)
(* digests             the messages digest() was called on (line 27)       *)
(* output              the lines printed (lines 42, 48, 50)                *)
(* leaf, next_child, pd, child, rand       references into heap            *)
(* direction_selector  list of booleans; path_digest  list of references   *)
(* stop, it            the range of the running for loop and its position  *)
(* i, direction, d     module-level names of lines 36/43, 37, 44-47        *)
(* parent, j_direction locals of generate_random_junction (lines 21-26)    *)
(* fpc, fin, fpair, fints   make_little_big and int.from_bytes applied to  *)
(*                     one input on its own (SpecFmt)                      *)
(***************************************************************************)
vars == <<pc, rng, heap, digests, output,
          leaf, direction_selector, path_digest, next_child,
          stop, it, i, direction, pd, d,
          child, rand, parent, j_direction,
          fpc, fin, fpair, fints>>

mainVars == <<pc, rng, heap, digests, output,
              leaf, direction_selector, path_digest, next_child,
              stop, it, i, direction, pd, d,
              child, rand, parent, j_direction>>

fmtVars == <<fpc, fin, fpair, fints>>

(* ------------------------------ constants ------------------------------ *)

\* range(0,32) in generate_random_hash; also hashlib.sha256().digest_size
HashLen == 32

\* the slice boundary of make_little_big
Half == 16

\* random.getrandbits(8)
ByteBits == 8

\* range(0,2) of the path construction loop
Depth == 2

\* number of distinct 32-byte draw sequences the random source may deliver
NumSamples == 3

\* largest loop bound tried when the loop bound is left open (SpecDepth)
MaxDepth == 2

\* number of byte positions varied in the inputs of the formatter (SpecFmt)
NumFmtPos == 5

NoRef == 0

Min(a, b) == IF a < b THEN a ELSE b

Reverse(s) == [k \in 1..Len(s) |-> s[Len(s) + 1 - k]]

(* --------------------------- the random source ------------------------- *)

\* One possible outcome of 32 consecutive getrandbits(8) calls.  Sample 0 is
\* all zero bytes, sample 1 all 0x01, the others mix zero and non-zero bytes.
Sample(k) ==
    [j \in 1..HashLen |->
        IF k = 0 THEN 0
        ELSE IF k = 1 THEN 1
        ELSE ((j - 1) * (k + 5) * (j + k)) % 256]

Samples == { Sample(k) : k \in 0..(NumSamples - 1) }

\* the rng log entries of n getrandbits(8) calls returning stream[1..n]
ByteDraws(stream, n) == [j \in 1..n |-> <<ByteBits, stream[j]>>]

(* ------------------------------ functions ------------------------------ *)

generate_random_hash_short(stream) ==
    [value |-> [j \in 1..(HashLen - 1) |-> stream[j]], used |-> HashLen - 1]

\* a bytearray of 32 getrandbits(8) results, in order
generate_random_hash(stream) ==
    [value |-> [j \in 1..HashLen |-> stream[j]], used |-> HashLen]

\* the weight of message position k in digest byte j
Weight(k, j) == ((k * 131 + j * 31) % 251) + 1

RECURSIVE MixRange(_, _, _, _)
MixRange(msg, lo, hi, j) ==
    IF lo > hi THEN 0
    ELSE IF lo = hi THEN (msg[lo] + 1) * Weight(lo, j)
    ELSE LET mid == (lo + hi) \div 2
         IN  (MixRange(msg, lo, mid, j) + MixRange(msg, mid + 1, hi, j)) % 65521

\* h.digest() of a hash object that was fed msg: 32 bytes, a function of the
\* whole message in which every byte counts with a weight of its position
Sha256Digest(msg) ==
    [j \in 1..HashLen |-> (MixRange(msg, 1, Len(msg), j) + 7 * j) % 256]

\* hashlib.sha256(): a fresh hash object
NewSha256 == [msg |-> <<>>]

\* h.update(data)
Update(h, data) == [msg |-> h.msg \o data]

get_parent_node_swapped(a, b) == Update(Update(NewSha256, b), a)

\* the hash object fed a, then b
get_parent_node(a, b) == Update(Update(NewSha256, a), b)

make_little_big_drop_byte(little) ==
    <<Reverse(SubSeq(little, 1, Min(Half, Len(little)))),
      Reverse(SubSeq(little, Half + 2, Len(little)))>>

\* each 16-byte half reversed, as a pair of new bytearrays
make_little_big(little) ==
    <<Reverse(SubSeq(little, 1, Min(Half, Len(little)))),
      Reverse(SubSeq(little, Half + 1, Len(little)))>>

RECURSIVE StripHighZeros(_)
StripHighZeros(x) ==
    IF Len(x) > 0 /\ x[Len(x)] = 0 THEN StripHighZeros(SubSeq(x, 1, Len(x) - 1))
    ELSE x

\* int.from_bytes(x, 'little'): the integer whose base-256 digits are x,
\* least significant first
IntFromBytesLittle(x) == StripHighZeros(x)

\* [int.from_bytes(x,'little') for x in make_little_big(h)]
FormatSplit(h) ==
    LET p == make_little_big(h)
    IN  <<IntFromBytesLittle(p[1]), IntFromBytesLittle(p[2])>>

Line(tag, idx, label, vals) == [tag |-> tag, idx |-> idx, d |-> label, vals |-> vals]

(* -------------------------------- state -------------------------------- *)

InitFmtIdle ==
    /\ fpc = "idle"
    /\ fin = <<>>
    /\ fpair = <<>>
    /\ fints = <<>>

InitMain ==
    /\ pc = "L30"
    /\ rng = <<>>
    /\ heap = <<>>
    /\ digests = <<>>
    /\ output = <<>>
    /\ leaf = NoRef
    /\ direction_selector = <<>>
    /\ path_digest = <<>>
    /\ next_child = NoRef
    /\ it = 0
    /\ i = -1
    /\ direction = FALSE
    /\ pd = NoRef
    /\ d = ""
    /\ child = NoRef
    /\ rand = NoRef
    /\ parent = NewSha256
    /\ j_direction = FALSE

Init ==
    /\ InitMain
    /\ stop = Depth
    /\ InitFmtIdle

(* ------------------------- path construction --------------------------- *)

GenLeafPrinting ==
    /\ pc = "L30"
    /\ \E s \in Samples :
         LET g == generate_random_hash(s)
         IN  /\ heap' = Append(heap, g.value)
             /\ rng' = rng \o ByteDraws(s, g.used)
             /\ output' = Append(output, Line("leaf:", -1, "", FormatSplit(g.value)))
    /\ leaf' = Len(heap) + 1
    /\ pc' = "L32"
    /\ UNCHANGED <<digests, direction_selector, path_digest, next_child,
                   stop, it, i, direction, pd, d, child, rand, parent, j_direction>>
    /\ UNCHANGED fmtVars

\* line 30: leaf = generate_random_hash()
GenLeaf ==
    /\ pc = "L30"
    /\ \E s \in Samples :
         LET g == generate_random_hash(s)
         IN  /\ heap' = Append(heap, g.value)
             /\ rng' = rng \o ByteDraws(s, g.used)
    /\ leaf' = Len(heap) + 1
    /\ pc' = "L32"
    /\ UNCHANGED <<digests, output, direction_selector, path_digest, next_child,
                   stop, it, i, direction, pd, d, child, rand, parent, j_direction>>
    /\ UNCHANGED fmtVars

\* lines 32-35: the two lists are created empty, next_child is bound to the
\* leaf object itself
InitPath ==
    /\ pc = "L32"
    /\ direction_selector' = <<>>
    /\ path_digest' = <<>>
    /\ next_child' = leaf
    /\ it' = 0
    /\ pc' = "L36"
    /\ UNCHANGED <<rng, heap, digests, output, leaf, stop, i, direction, pd, d,
                   child, rand, parent, j_direction>>
    /\ UNCHANGED fmtVars

LoopNextPlusOne ==
    /\ pc = "L36"
    /\ IF it <= stop
         THEN /\ i' = it
              /\ it' = it + 1
              /\ pc' = "L37"
         ELSE /\ pc' = "L42"
              /\ UNCHANGED <<i, it>>
    /\ UNCHANGED <<rng, heap, digests, output, leaf, direction_selector, path_digest,
                   next_child, stop, direction, pd, d, child, rand, parent, j_direction>>
    /\ UNCHANGED fmtVars

\* line 36: for i in range(0, stop)
LoopNext ==
    /\ pc = "L36"
    /\ IF it < stop
         THEN /\ i' = it
              /\ it' = it + 1
              /\ pc' = "L37"
         ELSE /\ pc' = "L42"
              /\ UNCHANGED <<i, it>>
    /\ UNCHANGED <<rng, heap, digests, output, leaf, direction_selector, path_digest,
                   next_child, stop, direction, pd, d, child, rand, parent, j_direction>>
    /\ UNCHANGED fmtVars

\* line 37, the call: generate_random_junction(next_child) binds child
JunctionCall ==
    /\ pc = "L37"
    /\ child' = next_child
    /\ pc' = "L20"
    /\ UNCHANGED <<rng, heap, digests, output, leaf, direction_selector, path_digest,
                   next_child, stop, it, i, direction, pd, d, rand, parent, j_direction>>
    /\ UNCHANGED fmtVars

\* line 20: rand = generate_random_hash()
JunctionRand ==
    /\ pc = "L20"
    /\ \E s \in Samples :
         LET g == generate_random_hash(s)
         IN  /\ heap' = Append(heap, g.value)
             /\ rng' = rng \o ByteDraws(s, g.used)
    /\ rand' = Len(heap) + 1
    /\ pc' = "L21"
    /\ UNCHANGED <<digests, output, leaf, direction_selector, path_digest, next_child,
                   stop, it, i, direction, pd, d, child, parent, j_direction>>
    /\ UNCHANGED fmtVars

\* line 21: parent = hashlib.sha256()
JunctionNewHash ==
    /\ pc = "L21"
    /\ parent' = NewSha256
    /\ pc' = "L22"
    /\ UNCHANGED <<rng, heap, digests, output, leaf, direction_selector, path_digest,
                   next_child, stop, it, i, direction, pd, d, child, rand, j_direction>>
    /\ UNCHANGED fmtVars

JunctionDirectionByte ==
    /\ pc = "L22"
    /\ \E b \in {0, 1} :
         /\ rng' = Append(rng, <<ByteBits, b>>)
         /\ j_direction' = (b # 0)
    /\ pc' = "L23"
    /\ UNCHANGED <<heap, digests, output, leaf, direction_selector, path_digest,
                   next_child, stop, it, i, direction, pd, d, child, rand, parent>>
    /\ UNCHANGED fmtVars

\* line 22: direction = bool(random.getrandbits(1))
JunctionDirection ==
    /\ pc = "L22"
    /\ \E b \in {0, 1} :
         /\ rng' = Append(rng, <<1, b>>)
         /\ j_direction' = (b # 0)
    /\ pc' = "L23"
    /\ UNCHANGED <<heap, digests, output, leaf, direction_selector, path_digest,
                   next_child, stop, it, i, direction, pd, d, child, rand, parent>>
    /\ UNCHANGED fmtVars

JunctionParentInverted ==
    /\ pc = "L23"
    /\ IF j_direction = FALSE
         THEN parent' = get_parent_node(heap[rand], heap[child])
         ELSE parent' = get_parent_node(heap[child], heap[rand])
    /\ pc' = "L27"
    /\ UNCHANGED <<rng, heap, digests, output, leaf, direction_selector, path_digest,
                   next_child, stop, it, i, direction, pd, d, child, rand, j_direction>>
    /\ UNCHANGED fmtVars

\* lines 23-26: the sibling is hashed first when direction is True
JunctionParent ==
    /\ pc = "L23"
    /\ IF j_direction = TRUE
         THEN parent' = get_parent_node(heap[rand], heap[child])
         ELSE parent' = get_parent_node(heap[child], heap[rand])
    /\ pc' = "L27"
    /\ UNCHANGED <<rng, heap, digests, output, leaf, direction_selector, path_digest,
                   next_child, stop, it, i, direction, pd, d, child, rand, j_direction>>
    /\ UNCHANGED fmtVars

JunctionReturnInPlace ==
    /\ pc = "L27"
    /\ heap' = [Append(heap, Sha256Digest(parent.msg)) EXCEPT ![next_child] = Sha256Digest(parent.msg)]
    /\ digests' = Append(digests, parent.msg)
    /\ direction' = j_direction
    /\ next_child' = Len(heap) + 1
    /\ pd' = rand
    /\ pc' = "L38"
    /\ UNCHANGED <<rng, output, leaf, direction_selector, path_digest, stop, it, i, d,
                   child, rand, parent, j_direction>>
    /\ UNCHANGED fmtVars

\* line 27 and the targets of line 37: return direction, parent.digest(), rand
\* is unpacked into direction, next_child, pd; the digest is a new bytes object
JunctionReturn ==
    /\ pc = "L27"
    /\ heap' = Append(heap, Sha256Digest(parent.msg))
    /\ digests' = Append(digests, parent.msg)
    /\ direction' = j_direction
    /\ next_child' = Len(heap) + 1
    /\ pd' = rand
    /\ pc' = "L38"
    /\ UNCHANGED <<rng, output, leaf, direction_selector, path_digest, stop, it, i, d,
                   child, rand, parent, j_direction>>
    /\ UNCHANGED fmtVars

\* line 38: direction_selector.append(direction)
AppendDirection ==
    /\ pc = "L38"
    /\ direction_selector' = Append(direction_selector, direction)
    /\ pc' = "L39"
    /\ UNCHANGED <<rng, heap, digests, output, leaf, path_digest, next_child, stop, it, i,
                   direction, pd, d, child, rand, parent, j_direction>>
    /\ UNCHANGED fmtVars

\* line 39: path_digest.append(pd)
AppendDigest ==
    /\ pc = "L39"
    /\ path_digest' = Append(path_digest, pd)
    /\ pc' = "L36"
    /\ UNCHANGED <<rng, heap, digests, output, leaf, direction_selector, next_child, stop,
                   it, i, direction, pd, d, child, rand, parent, j_direction>>
    /\ UNCHANGED fmtVars

(* ------------------------------- output -------------------------------- *)

\* line 42: print("leaf:", [int.from_bytes(x,'little') for x in make_little_big(leaf)])
\* and the creation of the iterator of line 43
PrintLeaf ==
    /\ pc = "L42"
    /\ output' = Append(output, Line("leaf:", -1, "", FormatSplit(heap[leaf])))
    /\ it' = 0
    /\ pc' = "L43"
    /\ UNCHANGED <<rng, heap, digests, leaf, direction_selector, path_digest, next_child,
                   stop, i, direction, pd, d, child, rand, parent, j_direction>>
    /\ UNCHANGED fmtVars

\* line 43: for i in range(0, len(direction_selector))
PrintLoopNext ==
    /\ pc = "L43"
    /\ IF it < Len(direction_selector)
         THEN /\ i' = it
              /\ it' = it + 1
              /\ pc' = "L44"
         ELSE /\ pc' = "L50"
              /\ UNCHANGED <<i, it>>
    /\ UNCHANGED <<rng, heap, digests, output, leaf, direction_selector, path_digest,
                   next_child, stop, direction, pd, d, child, rand, parent, j_direction>>
    /\ UNCHANGED fmtVars

\* lines 44-47: the label of step i (the lists are indexed from 0 in the source)
SetLabel ==
    /\ pc = "L44"
    /\ d' = IF direction_selector[i + 1] = TRUE THEN "Left" ELSE "Right"
    /\ pc' = "L48"
    /\ UNCHANGED <<rng, heap, digests, output, leaf, direction_selector, path_digest,
                   next_child, stop, it, i, direction, pd, child, rand, parent, j_direction>>
    /\ UNCHANGED fmtVars

PrintDigestOneBased ==
    /\ pc = "L48"
    /\ output' = Append(output, Line("Digest", i + 1, d, FormatSplit(heap[path_digest[i + 1]])))
    /\ pc' = "L43"
    /\ UNCHANGED <<rng, heap, digests, leaf, direction_selector, path_digest, next_child,
                   stop, it, i, direction, pd, d, child, rand, parent, j_direction>>
    /\ UNCHANGED fmtVars

\* line 48: print('Digest', i, ':', d, [... make_little_big(path_digest[i])])
PrintDigest ==
    /\ pc = "L48"
    /\ output' = Append(output, Line("Digest", i, d, FormatSplit(heap[path_digest[i + 1]])))
    /\ pc' = "L43"
    /\ UNCHANGED <<rng, heap, digests, leaf, direction_selector, path_digest, next_child,
                   stop, it, i, direction, pd, d, child, rand, parent, j_direction>>
    /\ UNCHANGED fmtVars

\* line 50: print("Root:", [... make_little_big(next_child)])
PrintRoot ==
    /\ pc = "L50"
    /\ output' = Append(output, Line("Root:", -1, "", FormatSplit(heap[next_child])))
    /\ pc' = "done"
    /\ UNCHANGED <<rng, heap, digests, leaf, direction_selector, path_digest, next_child,
                   stop, it, i, direction, pd, d, child, rand, parent, j_direction>>
    /\ UNCHANGED fmtVars

Next ==
    \/ GenLeaf
    \/ InitPath
    \/ LoopNext
    \/ JunctionCall
    \/ JunctionRand
    \/ JunctionNewHash
    \/ JunctionDirection
    \/ JunctionParent
    \/ JunctionReturn
    \/ AppendDirection
    \/ AppendDigest
    \/ PrintLeaf
    \/ PrintLoopNext
    \/ SetLabel
    \/ PrintDigest
    \/ PrintRoot

\* the script as written: the loop bound is the literal 2
Spec == Init /\ [][Next]_vars

\* the same script with the loop bound of line 36 left open
InitDepth ==
    /\ InitMain
    /\ stop \in 0..MaxDepth
    /\ InitFmtIdle

SpecDepth == InitDepth /\ [][Next]_vars

(* ---------------------- the formatter on its own ----------------------- *)

FmtPositions == <<1, 16, 17, 32, 2, 31, 15, 18>>

FmtByteVals == {0, 1, 255}

FmtChoices == [1..NumFmtPos -> FmtByteVals]

\* a 32-byte input: Sample(2) with the chosen positions overwritten
FmtInput(c) ==
    [j \in 1..HashLen |->
        IF \E k \in 1..NumFmtPos : FmtPositions[k] = j
          THEN c[CHOOSE k \in 1..NumFmtPos : FmtPositions[k] = j]
          ELSE Sample(2)[j]]

FmtInputs == { FmtInput(c) : c \in FmtChoices }

InitFmt ==
    /\ InitMain
    /\ stop = Depth
    /\ fpc = "start"
    /\ fin \in FmtInputs
    /\ fpair = <<>>
    /\ fints = <<>>

\* make_little_big(h)
FmtSplit ==
    /\ fpc = "start"
    /\ fpair' = make_little_big(fin)
    /\ fpc' = "split"
    /\ UNCHANGED <<fin, fints>>
    /\ UNCHANGED mainVars

\* [int.from_bytes(x,'little') for x in ...]
FmtInts ==
    /\ fpc = "split"
    /\ fints' = <<IntFromBytesLittle(fpair[1]), IntFromBytesLittle(fpair[2])>>
    /\ fpc' = "printed"
    /\ UNCHANGED <<fin, fpair>>
    /\ UNCHANGED mainVars

FmtNext == FmtSplit \/ FmtInts

SpecFmt == InitFmt /\ [][FmtNext]_vars

(* ------------------------------ properties ----------------------------- *)

\* ParentHash(a, b) = SHA256(a || b)
ParentHash(a, b) == Sha256Digest(a \o b)

\* the statements after the construction loop
PostLoop == {"L42", "L43", "L44", "L48", "L50", "done"}

\* the statements of one iteration of the construction loop
InBody == {"L37", "L20", "L21", "L22", "L23", "L27", "L38", "L39"}

\* the hash a verifier computes from the leaf with the first n recorded steps
ReplayUpTo[n \in 0..Depth + 1] ==
    IF n = 0 THEN heap[leaf]
    ELSE IF direction_selector[n]
           THEN ParentHash(heap[path_digest[n]], ReplayUpTo[n - 1])
           ELSE ParentHash(ReplayUpTo[n - 1], heap[path_digest[n]])

\* C1: replaying the recorded path from the leaf (sibling first on Left, child
\* first on Right) reproduces next_child at every iteration boundary, and at
\* the end of the run the value printed on the Root line.
ReplayReproducesRoot ==
    /\ (pc \in PostLoop \cup {"L36"}) =>
          ReplayUpTo[Len(path_digest)] = heap[next_child]
    /\ (pc = "done") =>
          /\ output[Len(output)].tag = "Root:"
          /\ output[Len(output)].vals = FormatSplit(ReplayUpTo[Len(path_digest)])

\* a finished run with one Left and one Right step in which the order of
\* concatenation matters at every step
ReplayWitness ==
    /\ pc = "done"
    /\ direction_selector = <<TRUE, FALSE>>
    /\ \A n \in 1..Len(path_digest) :
          ParentHash(heap[path_digest[n]], ReplayUpTo[n - 1])
            # ParentHash(ReplayUpTo[n - 1], heap[path_digest[n]])

\* the bytes returned by the 32 getrandbits(8) calls logged after position p
DrawnBytes(p) == [j \in 1..HashLen |-> rng[p + j][2]]

\* C2: generate_random_junction(child) returns (direction, parent, sibling)
\* with sibling the hash drawn in that call and parent = SHA256(sibling ||
\* child) on True, SHA256(child || sibling) on False; get_parent_node feeds a
\* before b.
JunctionContract ==
    /\ (pc = "L27") =>
          parent.msg = IF j_direction THEN heap[rand] \o heap[child]
                                      ELSE heap[child] \o heap[rand]
    /\ (pc = "L38") =>
          /\ direction = j_direction
          /\ pd = rand
          /\ heap[pd] = DrawnBytes(Len(rng) - (HashLen + 1))
          /\ heap[next_child] = IF direction
                                   THEN Sha256Digest(heap[pd] \o heap[child])
                                   ELSE Sha256Digest(heap[child] \o heap[pd])

\* a junction that returned Left with a sibling different from the child
JunctionWitness ==
    /\ pc = "L38"
    /\ direction = TRUE
    /\ heap[pd] # heap[child]
    /\ Sha256Digest(heap[pd] \o heap[child]) # Sha256Digest(heap[child] \o heap[pd])

\* the number of completed iterations of the construction loop
Completed == IF pc \in InBody THEN it - 1 ELSE it

OutputOrder ==
    /\ Len(output) <= Len(path_digest) + 2
    /\ \A k \in 1..Len(output) :
          /\ (k = 1) => output[k].tag = "leaf:"
          /\ (1 < k /\ k <= Len(path_digest) + 1) =>
                /\ output[k].tag = "Digest"
                /\ output[k].idx = k - 2
          /\ (k = Len(path_digest) + 2) => output[k].tag = "Root:"
    /\ (pc = "done") => Len(output) = Len(path_digest) + 2

\* a finished run that printed two Digest lines
OutputWitness ==
    /\ pc = "done"
    /\ Len(output) = 4
    /\ output[2].tag = "Digest"
    /\ output[3].tag = "Digest"

TotalDraws == HashLen + stop * (HashLen + 1)

\* while output is printed nothing of the result changes
ResultFixed ==
    /\ heap' = heap
    /\ leaf' = leaf
    /\ direction_selector' = direction_selector
    /\ path_digest' = path_digest
    /\ next_child' = next_child
    /\ rng' = rng
    /\ digests' = digests

\* C6: a line is printed only after all random draws and all parent hashes
\* are done, and from the first line on the leaf, the steps and the root stay
\* as they are.
NoPartialOutput ==
    /\ [](output # <<>> =>
            /\ pc \in PostLoop
            /\ Len(rng) = TotalDraws
            /\ Len(digests) = stop
            /\ Len(path_digest) = stop)
    /\ [][(output' # <<>>) => ResultFixed]_vars

\* the leaf line is out and the rest is still to print
FirstLineWitness ==
    /\ Len(output) = 1
    /\ pc = "L43"
    /\ Len(digests) = Depth

\* the width in bits the p-th draw of a run must have
ExpectedBits(p) ==
    IF p <= HashLen THEN ByteBits
    ELSE IF (p - HashLen) % (HashLen + 1) = 0 THEN 1 ELSE ByteBits

\* the position in the log before the sibling bytes of step k (k = 1, 2, ...)
SiblingAt(k) == HashLen + (k - 1) * (HashLen + 1)

\* the root computed from the draw log alone, through step n
RootFromDraws[n \in 0..Depth + 1] ==
    IF n = 0 THEN DrawnBytes(0)
    ELSE IF rng[SiblingAt(n + 1)][2] = 1
           THEN ParentHash(DrawnBytes(SiblingAt(n)), RootFromDraws[n - 1])
           ELSE ParentHash(RootFromDraws[n - 1], DrawnBytes(SiblingAt(n)))

\* C7: the draws come in one order (32 leaf bytes, then per junction 32
\* sibling bytes and one orientation bit), printing draws nothing, and leaf,
\* steps and root are a function of the draw log.
DrawOrderFixed ==
    /\ \A p \in 1..Len(rng) : rng[p][1] = ExpectedBits(p)
    /\ (leaf # NoRef) => heap[leaf] = DrawnBytes(0)
    /\ \A k \in 1..Len(path_digest) : heap[path_digest[k]] = DrawnBytes(SiblingAt(k))
    /\ \A k \in 1..Len(direction_selector) :
          direction_selector[k] = (rng[SiblingAt(k + 1)][2] = 1)
    /\ (pc \in PostLoop) =>
          /\ Len(rng) = TotalDraws
          /\ heap[next_child] = RootFromDraws[stop]

\* a finished run in which both junctions drew different siblings and bits
DrawWitness ==
    /\ pc = "done"
    /\ Len(rng) = HashLen + Depth * (HashLen + 1)
    /\ heap[path_digest[1]] # heap[path_digest[2]]
    /\ direction_selector[1] # direction_selector[2]

\* the inverse of the split: each half reversed back, first half first
Unsplit(pair) == Reverse(pair[1]) \o Reverse(pair[2])

\* n.to_bytes(len, 'little')
ToBytesLittle(n, len) == n \o [k \in 1..(len - Len(n)) |-> 0]

\* C8: make_little_big(h) is (bytes 0..15 reversed, bytes 16..31 reversed);
\* h is rebuilt from that pair and from the two printed integers, and no
\* other input prints the same pair.
SplitRoundTrips ==
    /\ (fpc \in {"split", "printed"}) =>
          /\ fpair[1] = Reverse(SubSeq(fin, 1, Half))
          /\ fpair[2] = Reverse(SubSeq(fin, Half + 1, HashLen))
          /\ Unsplit(fpair) = fin
    /\ (fpc = "printed") =>
          /\ Unsplit(<<ToBytesLittle(fints[1], Half), ToBytesLittle(fints[2], Half)>>) = fin
          /\ \A g \in FmtInputs : (FormatSplit(g) = fints) => g = fin

\* an input whose halves print as integers of fewer than 16 digits
SplitWitness ==
    /\ fpc = "printed"
    /\ fin[1] = 0
    /\ fin[Half + 1] = 0
    /\ fin[Half] # 0
    /\ Len(fints[1]) < Half
    /\ fpair[1] # fpair[2]

\* what the output shows is what was drawn and hashed
OutputReportsPath ==
    /\ (Len(output) >= 1) => output[1].vals = FormatSplit(DrawnBytes(0))
    /\ \A k \in 1..Len(path_digest) :
          (Len(output) >= k + 1) =>
             /\ output[k + 1].vals = FormatSplit(DrawnBytes(SiblingAt(k)))
             /\ output[k + 1].d \in {"Left", "Right"}
             /\ (output[k + 1].d = "Left") =>
                   SubSeq(digests[k], 1, HashLen) = DrawnBytes(SiblingAt(k))
             /\ (output[k + 1].d = "Right") =>
                   SubSeq(digests[k], HashLen + 1, 2 * HashLen) = DrawnBytes(SiblingAt(k))

\* objects and list entries that exist stay as they are
NothingMutated ==
    /\ Len(heap') >= Len(heap)
    /\ \A r \in 1..Len(heap) : heap'[r] = heap[r]
    /\ (leaf # NoRef) => leaf' = leaf
    /\ Len(direction_selector') >= Len(direction_selector)
    /\ \A k \in 1..Len(direction_selector) : direction_selector'[k] = direction_selector[k]
    /\ Len(path_digest') >= Len(path_digest)
    /\ \A k \in 1..Len(path_digest) : path_digest'[k] = path_digest[k]

\* C9: no hash object and no recorded list entry is ever changed, so the leaf
\* line shows the leaf as generated, and each Digest line the sibling drawn
\* in its iteration, labelled Left exactly when the sibling was hashed first.
ValuesImmutable ==
    /\ []OutputReportsPath
    /\ [][NothingMutated]_vars

\* a finished run with a Left and a Right line whose siblings differ from the
\* child they were hashed with
ImmutableWitness ==
    /\ pc = "done"
    /\ output[2].d = "Left"
    /\ output[3].d = "Right"
    /\ next_child # leaf
    /\ \A k \in 1..Depth :
          SubSeq(digests[k], 1, HashLen) # SubSeq(digests[k], HashLen + 1, 2 * HashLen)

\* C10: every hash object (leaf, siblings, parents) has 32 bytes, and
\* make_little_big splits it into two halves of 16 bytes.
HashLengthIs32 ==
    \A r \in 1..Len(heap) :
       /\ Len(heap[r]) = HashLen
       /\ Len(make_little_big(heap[r])[1]) = Half
       /\ Len(make_little_big(heap[r])[2]) = Half

\* a finished run: the leaf, two siblings and two parents exist
HashLengthWitness ==
    /\ pc = "done"
    /\ Len(heap) = 1 + 2 * Depth

====
